---- MODULE Spec2Model ----
(***************************************************************************)
(* A model of the CV validation engine of europass-cv-gen                  *)
(* (scripts/cv_validator.py, scripts/validation_result.py).                *)
(*                                                                         *)
(* Text is a sequence of one-character strings, so that split, join and    *)
(* the similarity score act on characters.  A run of literal text that     *)
(* holds none of the characters the program splits on may be written as    *)
(* one element (<<"Unknown field '">> holds its final quote apart).        *)
(*                                                                         *)
(* A YAML/JSON value is a tagged record: StrV, IntV, NoneV, DateV, DictV   *)
(* (an ordered sequence of key/value items, as a Python dict keeps         *)
(* insertion order) and ListV.  The schema is such a value too: the        *)
(* program reads it with yaml.safe_load and walks it as plain dicts.       *)
(***************************************************************************)
EXTENDS Integers, Sequences, FiniteSets, TLC

(***************************************************************************)
(* The state: one process, one validator instance, its validation calls    *)
(***************************************************************************)
VARIABLES
    constructed,    \* "no", "yes", or "failed" when __init__ raised
    schema,         \* self.schema
    known_fields,   \* self.known_fields: the set's members, in the order the set is walked
    hashSeed,       \* the process's hash salt
    lastCall,       \* the latest validation call: entry point, input, outcome
    keptCall,       \* an earlier call a caller kept to compare with
    askedField,  \* the argument of a direct call of _suggest_field_name
    suggested,     \* what that call returned
    yearPadded,     \* whether the platform's strftime writes %Y in four digits
    gen             \* a run of generate_cv.py: its arguments, its position, its exit code

vars == <<constructed, schema, known_fields, hashSeed, lastCall, keptCall, askedField, suggested, yearPadded, gen>>

\* the state of the validator instance and of its callers
validatorVars == <<constructed, schema, known_fields, hashSeed, lastCall, keptCall, askedField, suggested, yearPadded>>

(***************************************************************************)
(* Values                                                                  *)
(***************************************************************************)
StrV(s) == [t |-> "str", s |-> s]
IntV(n) == [t |-> "int", n |-> n]
NoneV == [t |-> "none"]
DateV(y, m, d) == [t |-> "date", y |-> y, m |-> m, d |-> d]
DateTimeV(y, m, d, hh) == [t |-> "datetime", y |-> y, m |-> m, d |-> d, hh |-> hh]
DictV(items) == [t |-> "dict", items |-> items]
ListV(elems) == [t |-> "list", elems |-> elems]
KV(k, v) == [k |-> k, v |-> v]

IsDict(v) == v.t = "dict"
IsList(v) == v.t = "list"
IsStr(v) == v.t = "str"

\* a schema keyword, or any other key written as one run of text
KW(w) == StrV(<<w>>)

\* key in d
Has(d, key) == \E i \in DOMAIN d.items : d.items[i].k = key

\* d[key]; a Python dict holds a key once
Get(d, key) == d.items[CHOOSE i \in DOMAIN d.items : d.items[i].k = key].v

\* list(d.keys()), in insertion order
KeysOf(d) == [i \in DOMAIN d.items |-> d.items[i].k]

(***************************************************************************)
(* Text helpers                                                            *)
(***************************************************************************)
Digits == <<"0", "1", "2", "3", "4", "5", "6", "7", "8", "9">>

RECURSIVE IntStr(_)
\* str(n) for n >= 0
IntStr(n) == IF n < 10 THEN <<Digits[n + 1]>> ELSE IntStr(n \div 10) \o <<Digits[(n % 10) + 1]>>

RECURSIVE ZeroPad(_, _)
\* the %Y / %m / %d fields of strftime: n written in at least w digits
ZeroPad(n, w) == IF w <= 1 THEN IntStr(n) ELSE IF n < 10 THEN <<"0">> \o ZeroPad(n, w - 1) ELSE ZeroPad(n \div 10, w - 1) \o <<Digits[(n % 10) + 1]>>

\* str(v) of a key or path element inside an f-string or a join
PyStr(v) == IF v.t = "str" THEN v.s ELSE IF v.t = "int" THEN IntStr(v.n) ELSE <<"None">>

\* type(v).__name__
TypeName(v) ==
    CASE v.t = "str" -> "str"
      [] v.t = "int" -> "int"
      [] v.t = "none" -> "NoneType"
      [] v.t = "date" -> "date"
      [] v.t = "datetime" -> "datetime"
      [] v.t = "dict" -> "dict"
      [] v.t = "list" -> "list"

RECURSIVE Split(_, _)
\* s.split(sep) for a one-character separator
Split(s, sep) ==
    IF \A i \in DOMAIN s : s[i] # sep THEN <<s>>
    ELSE LET p == CHOOSE i \in DOMAIN s : s[i] = sep /\ \A j \in 1..(i - 1) : s[j] # sep
         IN  <<SubSeq(s, 1, p - 1)>> \o Split(SubSeq(s, p + 1, Len(s)), sep)

RECURSIVE JoinWith(_, _)
\* sep.join(parts)
JoinWith(parts, sep) ==
    IF parts = <<>> THEN <<>>
    ELSE IF Len(parts) = 1 THEN parts[1]
    ELSE parts[1] \o sep \o JoinWith(Tail(parts), sep)

(***************************************************************************)
(* Iteration order of a Python set.  A set of strings is walked in an      *)
(* order fixed by the strings' hashes, which the interpreter salts once    *)
(* per process (hashSeed): the order is a function of the set and the      *)
(* seed, the same for every walk within one process.                       *)
(***************************************************************************)
Alphabet == <<" ", "'", ".", "0", "1", "2", "A", "N", "[", "]", "_", "a", "b", "c", "d", "e", "i", "k", "l", "m", "n", "o", "r", "t", "w", "x", "y", "z">>

\* the code point order of the characters in use; text written as one run sorts first
Ord(c) == IF \E i \in DOMAIN Alphabet : Alphabet[i] = c THEN CHOOSE i \in DOMAIN Alphabet : Alphabet[i] = c ELSE 0

RECURSIVE LexLess(_, _)
LexLess(a, b) ==
    IF a = <<>> THEN b # <<>>
    ELSE IF b = <<>> THEN FALSE
    ELSE IF Ord(a[1]) # Ord(b[1]) THEN Ord(a[1]) < Ord(b[1])
    ELSE LexLess(Tail(a), Tail(b))

RECURSIVE HashSum(_, _, _)
HashSum(s, i, seed) == IF i > Len(s) THEN 0 ELSE Ord(s[i]) * (i + seed) + HashSum(s, i + 1, seed)

\* hash(key) under the process's salt, reduced to the table size
HashOf(key, seed) == IF seed = 0 THEN 0 ELSE HashSum(PyStr(key), 1, seed) % 7

\* key a is met before key b when the set is walked
Before(a, b, seed) ==
    IF HashOf(a, seed) # HashOf(b, seed) THEN HashOf(a, seed) < HashOf(b, seed)
    ELSE IF PyStr(a) # PyStr(b) THEN LexLess(PyStr(a), PyStr(b))
    ELSE a.t = "int" /\ b.t = "str"

RECURSIVE SetOrder(_, _)
\* list(S) for a set S of keys
SetOrder(S, seed) ==
    IF S = {} THEN <<>>
    ELSE LET first == CHOOSE a \in S : \A b \in S \ {a} : Before(a, b, seed)
         IN  <<first>> \o SetOrder(S \ {first}, seed)

\* a set of strings as the sequence a walk of it yields
SetAsWalked(S, seed) == LET order == SetOrder({StrV(n) : n \in S}, seed) IN [i \in DOMAIN order |-> order[i].s]

(***************************************************************************)
(* fuzzywuzzy: utils.full_process, fuzz.ratio (difflib.SequenceMatcher)    *)
(* and process.extractOne, as cv_validator.py calls them.                  *)
(***************************************************************************)
Letters == {"a", "b", "c", "d", "e", "i", "k", "l", "m", "n", "o", "r", "t", "w", "x", "y", "z", "A", "N"}

\* \w of the regular expression: letters, digits and the underscore
IsWordChar(c) == c \in Letters \/ c \in {"0", "1", "2", "3", "4", "5", "6", "7", "8", "9", "_"}

Lower(c) == IF c = "A" THEN "a" ELSE IF c = "N" THEN "n" ELSE c

RECURSIVE Strip(_)
Strip(s) ==
    IF s = <<>> THEN s
    ELSE IF s[1] = " " THEN Strip(Tail(s))
    ELSE IF s[Len(s)] = " " THEN Strip(SubSeq(s, 1, Len(s) - 1))
    ELSE s

\* utils.full_process: non-word characters to blanks, lower case, strip
full_process(s) == Strip([i \in DOMAIN s |-> IF IsWordChar(s[i]) THEN Lower(s[i]) ELSE " "])

\* a and b hold the same block of m characters from i and from j
SameBlock(a, b, i, j, m) == \A d \in 0..(m - 1) : a[i + d] = b[j + d]

\* some block of m characters is common to a and b
HasBlock(a, b, m) == \E i \in 1..(Len(a) - m + 1) : \E j \in 1..(Len(b) - m + 1) : SameBlock(a, b, i, j, m)

RECURSIVE LongestBlock(_, _, _)
\* the size of the longest common block, at most m
LongestBlock(a, b, m) == IF m = 0 THEN 0 ELSE IF HasBlock(a, b, m) THEN m ELSE LongestBlock(a, b, m - 1)

\* where the longest block (of k characters) starts earliest in a
BlockStartA(a, b, k) ==
    CHOOSE i \in 1..(Len(a) - k + 1) :
        /\ \E j \in 1..(Len(b) - k + 1) : SameBlock(a, b, i, j, k)
        /\ \A i2 \in 1..(i - 1) : \A j \in 1..(Len(b) - k + 1) : ~SameBlock(a, b, i2, j, k)

\* and, from there, earliest in b
BlockStartB(a, b, k, bi) ==
    CHOOSE j \in 1..(Len(b) - k + 1) : SameBlock(a, b, bi, j, k) /\ \A j2 \in 1..(j - 1) : ~SameBlock(a, b, bi, j2, k)

RECURSIVE MatchCount(_, _)
\* the block of k characters at bi and bj, and the matches to its left and right
MatchAround(a, b, k, bi, bj) ==
    k + MatchCount(SubSeq(a, 1, bi - 1), SubSeq(b, 1, bj - 1))
      + MatchCount(SubSeq(a, bi + k, Len(a)), SubSeq(b, bj + k, Len(b)))

MatchFromA(a, b, k, bi) == MatchAround(a, b, k, bi, BlockStartB(a, b, k, bi))

MatchOfSize(a, b, k) == IF k = 0 THEN 0 ELSE MatchFromA(a, b, k, BlockStartA(a, b, k))

\* SequenceMatcher: the longest matching block (the earliest in a, then in b), then
\* the same to its left and to its right; the sum of the blocks' sizes
MatchCount(a, b) ==
    IF a = <<>> \/ b = <<>> THEN 0
    ELSE MatchOfSize(a, b, LongestBlock(a, b, IF Len(a) < Len(b) THEN Len(a) ELSE Len(b)))

\* utils.intr(100 * (2.0 * m / t)): round to the nearest integer, a tie to the even one
IntR(m, t) ==
    LET q == (200 * m) \div t
        r == (200 * m) % t
    IN  IF 2 * r > t THEN q + 1 ELSE IF 2 * r < t THEN q ELSE IF q % 2 = 0 THEN q ELSE q + 1

\* fuzz.ratio: 100 for equal strings, 0 when one is empty, else the matcher's ratio
ratio(s1, s2) ==
    IF s1 = s2 THEN 100
    ELSE IF s1 = <<>> \/ s2 = <<>> THEN 0
    ELSE IntR(MatchCount(s1, s2), Len(s1) + Len(s2))

\* the score extractOne gives a choice: both sides through the default processor
Score(query, choice) == ratio(full_process(query), full_process(choice))

\* the better of the best so far and the next choice: the earlier one on a tie
Better(best, name, sc) == IF ~best.some \/ sc > best.score THEN [some |-> TRUE, name |-> name, score |-> sc] ELSE best

RECURSIVE BestFrom(_, _, _, _)
BestFrom(query, choices, i, best) ==
    IF i > Len(choices) THEN best
    ELSE BestFrom(query, choices, i + 1, Better(best, choices[i], Score(query, choices[i])))

\* a matcher that takes the first choice it scores, whatever the others score
extractOne_first(query, choices) ==
    IF choices = <<>> THEN [some |-> FALSE]
    ELSE [some |-> TRUE, name |-> choices[1], score |-> Score(query, choices[1])]

\* process.extractOne(query, choices, scorer=fuzz.ratio): the first choice, in the
\* order the choices are walked, of the highest score; None for no choices
extractOne(query, choices) == BestFrom(query, choices, 1, [some |-> FALSE])

(***************************************************************************)
(* CVValidator: normalisation, the Known-Field Set, the unknown-field      *)
(* detector and the suggestion engine                                      *)
(***************************************************************************)
\* isinstance(obj, (date, datetime))
IsDate(obj) == obj.t \in {"date", "datetime"}

\* the %Y field: the C library's, which writes a year below 1000 in four digits on
\* some platforms and as it is on others
YearText(y) == IF yearPadded THEN ZeroPad(y, 4) ELSE IntStr(y)

\* obj.strftime('%Y-%m-%d')
strftime(obj) == YearText(obj.y) \o <<"-">> \o ZeroPad(obj.m, 2) \o <<"-">> \o ZeroPad(obj.d, 2)

RECURSIVE normalize_recursive(_)
\* dicts and lists are rebuilt, a date or datetime becomes its strftime('%Y-%m-%d')
\* text, anything else is handed back
normalize_recursive(obj) ==
    IF IsDict(obj) THEN DictV([i \in DOMAIN obj.items |-> KV(obj.items[i].k, normalize_recursive(obj.items[i].v))])
    ELSE IF IsList(obj) THEN ListV([i \in DOMAIN obj.elems |-> normalize_recursive(obj.elems[i])])
    ELSE IF IsDate(obj) THEN StrV(strftime(obj))
    ELSE obj

normalize_data_for_validation(data) == normalize_recursive(data)

\* f"{path}.{field}" if path else field, for a path held as text
DotJoin(path, name) == IF path # <<>> THEN path \o <<".">> \o name ELSE name

RECURSIVE extract_fields_recursive(_, _)
\* the names one schema node adds to the Known-Field Set
extract_fields_recursive(obj, prefix) ==
    IF ~IsDict(obj) THEN {}
    ELSE LET props == IF Has(obj, KW("properties")) THEN Get(obj, KW("properties")).items ELSE <<>>
             fromProps == UNION { LET field_name == PyStr(props[i].k)
                                      full_name == DotJoin(prefix, field_name)
                                  IN  {field_name, full_name} \cup
                                      (IF IsDict(props[i].v) THEN extract_fields_recursive(props[i].v, full_name) ELSE {})
                                  : i \in DOMAIN props }
             fromItems == IF Has(obj, KW("items")) /\ IsDict(Get(obj, KW("items")))
                          THEN extract_fields_recursive(Get(obj, KW("items")), prefix)
                          ELSE {}
             fromOther == UNION { IF IsDict(obj.items[i].v) /\ obj.items[i].k \notin {KW("properties"), KW("items")}
                                  THEN extract_fields_recursive(obj.items[i].v, prefix)
                                  ELSE {}
                                  : i \in DOMAIN obj.items }
         IN  fromProps \cup fromItems \cup fromOther

\* the set _extract_known_fields returns
extract_known_fields(schema_tree) == extract_fields_recursive(schema_tree, <<>>)

\* an entry of unknown_fields: the f-string's text below the root, the key itself at
\* the root (where path is empty and the code appends field as it is)
FieldPath(path, field) == IF path # <<>> THEN StrV(path \o <<".">> \o PyStr(field)) ELSE field

\* the path handed down for a declared field: text below the root, the key itself at
\* the root; every key the schema declares is a string
PathText(path, field_name) == IF path # <<>> THEN path \o <<".">> \o PyStr(field_name) ELSE PyStr(field_name)

RECURSIVE FlatSeq(_)
\* the concatenation of a sequence of sequences
FlatSeq(ss) == IF ss = <<>> THEN <<>> ELSE ss[1] \o FlatSeq(Tail(ss))

\* an element's path written with a dot, as the validator's error paths are
item_path_dotted(field_path, i) == field_path \o <<".">> \o IntStr(i)

\* f"{field_path}[{i}]": the path of element i of an array
item_path(field_path, i) == field_path \o <<"[">> \o IntStr(i) \o <<"]">>

RECURSIVE find_unknown_fields(_, _, _, _)
\* the unknown fields of data under schema_props: first the keys of this level the
\* schema does not declare (a set difference, walked in set order), then, in the
\* data's own order, what the declared objects and arrays of objects hold
find_unknown_fields(data, schema_props, path, seed) ==
    IF ~IsDict(data) \/ ~Has(schema_props, KW("properties")) THEN <<>>
    ELSE LET properties == Get(schema_props, KW("properties"))
             allowed_fields == {properties.items[i].k : i \in DOMAIN properties.items}
             actual_fields == {data.items[i].k : i \in DOMAIN data.items}
             extra == SetOrder(actual_fields \ allowed_fields, seed)
             here == [i \in DOMAIN extra |-> FieldPath(path, extra[i])]
             below == [i \in DOMAIN data.items |->
                        LET field_name == data.items[i].k
                            field_value == data.items[i].v
                        IN  IF field_name \notin allowed_fields THEN <<>>
                            ELSE LET field_path == PathText(path, field_name)
                                     field_schema == Get(properties, field_name)
                                 IN  IF IsDict(field_value) /\ Has(field_schema, KW("properties"))
                                     THEN find_unknown_fields(field_value, field_schema, field_path, seed)
                                     ELSE IF IsList(field_value) /\ Has(field_schema, KW("items"))
                                     THEN LET items_schema == Get(field_schema, KW("items"))
                                          IN  IF IsDict(items_schema) /\ Has(items_schema, KW("properties"))
                                              THEN FlatSeq([j \in DOMAIN field_value.elems |->
                                                     IF IsDict(field_value.elems[j])
                                                     THEN find_unknown_fields(field_value.elems[j], items_schema,
                                                              item_path(field_path, j - 1), seed)
                                                     ELSE <<>>])
                                              ELSE <<>>
                                     ELSE <<>>]
         IN  here \o FlatSeq(below)

\* unknown_field.split('.')[-1]
LastSegment(text) == LET parts == Split(text, ".") IN parts[Len(parts)]

\* the default of the threshold parameter
Threshold == 60

\* a comparison that leaves out the threshold itself
IfAbove(match, threshold) ==
    IF match.some /\ match.score > threshold THEN [some |-> TRUE, name |-> match.name] ELSE [some |-> FALSE]

\* match[0] if match and match[1] >= threshold, else None
IfAtLeast(match, threshold) ==
    IF match.some /\ match.score >= threshold THEN [some |-> TRUE, name |-> match.name] ELSE [some |-> FALSE]

\* _suggest_field_name for an unknown field held as text: the best match over the
\* Known-Field Set (known: its members in the order the set is walked) when its
\* score reaches the threshold
suggest_field_name(unknown_field, known) == IfAtLeast(extractOne(LastSegment(unknown_field), known), Threshold)

(***************************************************************************)
(* The structural validator: jsonschema's Draft7Validator.iter_errors for  *)
(* the keywords type, properties, required and items, a keyword at a time  *)
(* in the schema's own order; every other keyword of these schemas         *)
(* validates nothing.                                                      *)
(***************************************************************************)
\* validator.is_type(instance, type)
is_type(instance, type) ==
    CASE type = KW("object") -> instance.t = "dict"
      [] type = KW("array") -> instance.t = "list"
      [] type = KW("string") -> instance.t = "str"
      [] type = KW("integer") -> instance.t = "int"
      [] type = KW("null") -> instance.t = "none"
      [] OTHER -> FALSE

\* repr() of a str: single quotes, unless it holds one and no double quote
PyRepr(text) ==
    IF (\E i \in DOMAIN text : text[i] = "'") /\ ~(\E i \in DOMAIN text : text[i] = "\"")
    THEN <<"\"">> \o text \o <<"\"">>
    ELSE <<"'">> \o FlatSeq([i \in DOMAIN text |-> IF text[i] = "'" THEN <<"\\", "'">> ELSE <<text[i]>>]) \o <<"'">>

\* a jsonschema ValidationError
VError(validator, validator_value, instance, absolute_path, message) ==
    [validator |-> validator, validator_value |-> validator_value, instance |-> instance,
     absolute_path |-> absolute_path, message |-> message]

RECURSIVE iter_errors(_, _, _)
iter_errors(instance, schema_node, path) ==
    IF ~IsDict(schema_node) THEN <<>>
    ELSE FlatSeq([n \in DOMAIN schema_node.items |->
            LET k == schema_node.items[n].k
                v == schema_node.items[n].v
            IN  CASE k = KW("type") ->
                        IF is_type(instance, v) THEN <<>>
                        ELSE <<VError("type", v, instance, path,
                                      PyRepr(PyStr(instance)) \o <<" is not of type ">> \o PyRepr(v.s))>>
                  [] k = KW("properties") ->
                        IF ~IsDict(instance) THEN <<>>
                        ELSE FlatSeq([i \in DOMAIN v.items |->
                                IF Has(instance, v.items[i].k)
                                THEN iter_errors(Get(instance, v.items[i].k), v.items[i].v, Append(path, v.items[i].k))
                                ELSE <<>>])
                  [] k = KW("required") ->
                        IF ~IsDict(instance) THEN <<>>
                        ELSE FlatSeq([i \in DOMAIN v.elems |->
                                IF Has(instance, v.elems[i]) THEN <<>>
                                ELSE <<VError("required", v, instance, path,
                                              PyRepr(v.elems[i].s) \o <<" is a required property">>)>>])
                  [] k = KW("items") ->
                        IF ~IsList(instance) \/ ~IsDict(v) THEN <<>>
                        ELSE FlatSeq([i \in DOMAIN instance.elems |->
                                iter_errors(instance.elems[i], v, Append(path, IntV(i - 1)))])
                  [] OTHER -> <<>>])

\* jsonschema.validate raises the best match of iter_errors, when there is one
validate_raises(instance, schema_tree) == iter_errors(instance, schema_tree, <<>>) # <<>>

(***************************************************************************)
(* Messages and results (validation_result.py)                             *)
(***************************************************************************)
ValidationMessage(level, field_path, message, suggestion) ==
    [level |-> level, field_path |-> field_path, message |-> message, suggestion |-> suggestion]

ValidationResult(is_valid, messages, unknown_fields) ==
    [is_valid |-> is_valid, messages |-> messages, unknown_fields |-> unknown_fields]

NoSuggestion == [some |-> FALSE]

IsError(msg) == msg.level = "error"

IsWarning(msg) == msg.level = "warning"

errors(result) == SelectSeq(result.messages, IsError)

warnings(result) == SelectSeq(result.messages, IsWarning)

has_errors(result) == Len(errors(result)) > 0

has_warnings(result) == Len(warnings(result)) > 0

\* the field a "required" error names: error.message.split("'")[1], or "field"
MissingField(message) ==
    IF \E i \in DOMAIN message : message[i] = "'" THEN Split(message, "'")[2] ELSE <<"field">>

\* a structural violation reported at the wrong level
format_jsonschema_error_as_warning(error) ==
    ValidationMessage("warning",
                      JoinWith([i \in DOMAIN error.absolute_path |-> PyStr(error.absolute_path[i])], <<".">>),
                      error.message, NoSuggestion)

\* _format_jsonschema_error
format_jsonschema_error(error) ==
    LET field_path == IF error.absolute_path # <<>>
                      THEN JoinWith([i \in DOMAIN error.absolute_path |-> PyStr(error.absolute_path[i])], <<".">>)
                      ELSE <<>>
        message == CASE error.validator = "required" ->
                            <<"Required field '">> \o MissingField(error.message) \o <<"'">> \o <<" is missing">>
                     [] error.validator = "type" ->
                            <<"Expected ">> \o error.validator_value.s \o <<", got ">> \o <<TypeName(error.instance)>>
                     [] OTHER -> error.message
    IN  ValidationMessage("error", field_path, message, NoSuggestion)

(***************************************************************************)
(* The entry points                                                        *)
(***************************************************************************)
Returned(result, ran) == [kind |-> "returned", result |-> result, ran |-> ran]

Raised(exc, ran) == [kind |-> "raised", exc |-> exc, ran |-> ran]

\* f"Did you mean '{suggestion}'?" if suggestion else None
SuggestionText(suggestion) ==
    IF suggestion.some /\ suggestion.name # <<>>
    THEN [some |-> TRUE, text |-> <<"Did you mean '">> \o suggestion.name \o <<"'", "?">>]
    ELSE [some |-> FALSE]

\* an unknown field reported as an error
UnknownFieldWarning_as_error(unknown_field, known) ==
    ValidationMessage("error", unknown_field, <<"Unknown field '">> \o unknown_field \o <<"'">>,
                      SuggestionText(suggest_field_name(unknown_field, known)))

\* the warning built for one unknown field
UnknownFieldWarning(unknown_field, known) ==
    ValidationMessage("warning", unknown_field, <<"Unknown field '">> \o unknown_field \o <<"'">>,
                      SuggestionText(suggest_field_name(unknown_field, known)))

\* the errors validate_cv_data collects: those of iter_errors, when validate raised
CollectErrors(normalized_data, schema_tree) ==
    IF validate_raises(normalized_data, schema_tree)
    THEN LET found == iter_errors(normalized_data, schema_tree, <<>>)
         IN  [i \in DOMAIN found |-> format_jsonschema_error(found[i])]
    ELSE <<>>

\* the loop over the unknown fields and the result. _suggest_field_name calls
\* unknown_field.split: an entry that is no str (a root key that is no string) ends
\* the call with AttributeError
WrapUnknownFields(is_valid, structural, unknown_fields, known) ==
    IF \E i \in DOMAIN unknown_fields : ~IsStr(unknown_fields[i])
    THEN Raised("AttributeError", {"normalize", "validate", "find_unknown_fields"})
    ELSE Returned(ValidationResult(is_valid,
                      structural \o [i \in DOMAIN unknown_fields |-> UnknownFieldWarning(unknown_fields[i].s, known)],
                      [i \in DOMAIN unknown_fields |-> unknown_fields[i].s]),
                  {"normalize", "validate", "find_unknown_fields"})

\* a detector whose list outlives the call (a shared default argument): the
\* fields of the call before come first
detect_unknown_fields_shared(cv_data, schema_tree, seed) ==
    (IF lastCall.entry = "data" /\ lastCall.outcome.kind = "returned"
     THEN [i \in DOMAIN lastCall.outcome.result.unknown_fields |-> StrV(lastCall.outcome.result.unknown_fields[i])]
     ELSE <<>>)
    \o find_unknown_fields(cv_data, schema_tree, <<>>, seed)

\* the unknown fields of the original data, from the root of the schema
detect_unknown_fields(cv_data, schema_tree, seed) == find_unknown_fields(cv_data, schema_tree, <<>>, seed)

\* what validate and iter_errors are given: normalized_data
structural_input(cv_data) == normalize_data_for_validation(cv_data)

\* what _find_unknown_fields is given: cv_data, the original
detector_input(cv_data) == cv_data

\* validate_cv_data: normalise, validate (every error collected when validate
\* raises), detect the unknown fields of the original data, wrap each as a warning
validate_cv_data(cv_data, schema_tree, known, seed) ==
    WrapUnknownFields(~validate_raises(structural_input(cv_data), schema_tree),
                      CollectErrors(structural_input(cv_data), schema_tree),
                      detect_unknown_fields(detector_input(cv_data), schema_tree, seed),
                      known)

\* validate_yaml_file: FileNotFoundError and yaml.YAMLError become a result of one
\* root-level error. Nothing else is caught: the file is opened as UTF-8 text, and
\* bytes that are no UTF-8 end the read inside safe_load with UnicodeDecodeError
validate_yaml_file(yaml_file, schema_tree, known, seed) ==
    CASE yaml_file.kind = "missing" ->
            Returned(ValidationResult(FALSE, <<ValidationMessage("error", <<>>, <<"YAML file not found: ", "path">>, NoSuggestion)>>, <<>>), {})
      [] yaml_file.kind = "yaml_error" ->
            Returned(ValidationResult(FALSE, <<ValidationMessage("error", <<>>, <<"Error parsing YAML file: ", "e">>, NoSuggestion)>>, <<>>), {})
      [] yaml_file.kind = "undecodable" -> Raised("UnicodeDecodeError", {})
      [] OTHER -> validate_cv_data(yaml_file.data, schema_tree, known, seed)

(***************************************************************************)
(* The inputs: schemas, documents and data files                           *)
(***************************************************************************)
n_name == <<"n", "a", "m", "e">>
n_email == <<"e", "m", "a", "i", "l">>
n_emial == <<"e", "m", "i", "a", "l">>
n_born == <<"b", "o", "r", "n">>
n_work == <<"w", "o", "r", "k">>
n_role == <<"r", "o", "l", "e">>
n_rol == <<"r", "o", "l">>
n_addr == <<"a", "d", "d", "r">>
n_city == <<"c", "i", "t", "y">>
n_cty == <<"c", "t", "y">>
n_ok == <<"o", "'", "k">>
n_x == <<"x">>
n_zz == <<"z", "z">>
n_addr_x == <<"a", "d", "d", "r", ".", "x">>

TypeOf(w) == KV(KW("type"), KW(w))

StringSchema == DictV(<<TypeOf("string")>>)

\* an object schema: type, properties, required, in the order a schema file lists them
ObjectSchema(props, required) ==
    DictV(<<TypeOf("object"), KV(KW("properties"), DictV(props)), KV(KW("required"), ListV(required))>>)

ArraySchema(item_schema) == DictV(<<TypeOf("array"), KV(KW("items"), item_schema)>>)

\* the résumé schema: name and email required, work an array of objects that need
\* a role, addr an object that needs a city
SchemaCV ==
    ObjectSchema(<<KV(StrV(n_name), StringSchema),
                   KV(StrV(n_email), StringSchema),
                   KV(StrV(n_born), StringSchema),
                   KV(StrV(n_work), ArraySchema(ObjectSchema(<<KV(StrV(n_role), StringSchema)>>, <<StrV(n_role)>>))),
                   KV(StrV(n_addr), ObjectSchema(<<KV(StrV(n_city), StringSchema)>>, <<StrV(n_city)>>))>>,
                 <<StrV(n_name), StrV(n_email)>>)

\* a schema whose required field's name holds an apostrophe
SchemaAlt ==
    ObjectSchema(<<KV(StrV(n_ok), StringSchema),
                   KV(StrV(n_role), StringSchema),
                   KV(StrV(n_work), ArraySchema(StringSchema))>>,
                 <<StrV(n_ok)>>)

Schemas == {SchemaCV, SchemaAlt}

SchemaSources == {[kind |-> "ok", tree |-> sch] : sch \in Schemas} \cup {[kind |-> "missing"], [kind |-> "malformed"]}

txt == StrV(<<"A">>)

Base == <<KV(StrV(n_name), txt), KV(StrV(n_email), txt)>>

\* the root fields present or absent, with or without unknown keys beside them
RootDocs ==
    { DictV(nameOpt \o emailOpt \o extraOpt) :
        nameOpt \in {<<>>, <<KV(StrV(n_name), txt)>>},
        emailOpt \in {<<>>, <<KV(StrV(n_email), txt)>>},
        extraOpt \in {<<>>, <<KV(StrV(n_emial), txt)>>,
                      <<KV(StrV(n_zz), DictV(<<KV(StrV(n_x), IntV(1))>>)), KV(StrV(n_emial), txt)>>} }

\* the array of objects: conforming, an element that lacks role and has rol, a key
\* under an unknown key, a key that is no string, no array at all
WorkDocs ==
    { DictV(Base \o <<KV(StrV(n_work), w)>>) :
        w \in {ListV(<<DictV(<<KV(StrV(n_role), txt)>>)>>),
               ListV(<<DictV(<<KV(StrV(n_role), txt)>>), DictV(<<KV(StrV(n_rol), txt)>>)>>),
               ListV(<<DictV(<<KV(StrV(n_role), txt), KV(StrV(n_x), DictV(<<KV(StrV(n_zz), IntV(1))>>))>>)>>),
               ListV(<<DictV(<<KV(StrV(n_role), txt)>>), DictV(<<KV(StrV(n_role), txt), KV(IntV(1), txt)>>)>>),
               txt} }

\* the nested object: conforming, empty, a misspelt key, an extra key
AddrDocs ==
    { DictV(Base \o <<KV(StrV(n_addr), a)>>) :
        a \in {DictV(<<KV(StrV(n_city), txt)>>),
               DictV(<<>>),
               DictV(<<KV(StrV(n_cty), txt)>>),
               DictV(<<KV(StrV(n_city), txt), KV(StrV(n_ok), txt)>>)} }

\* an empty document, a list, a scalar, a root key that is no string, a mapping
\* where the schema has a string, documents for SchemaAlt, a native date, and
\* two keys that render to the same path
OtherDocs ==
    {NoneV, ListV(<<DictV(Base)>>), txt,
     DictV(<<KV(StrV(n_name), txt), KV(IntV(1), txt)>>),
     DictV(<<KV(StrV(n_name), DictV(<<KV(StrV(n_x), IntV(1))>>)), KV(StrV(n_email), txt)>>),
     DictV(<<KV(StrV(n_ok), txt), KV(StrV(n_role), txt)>>),
     DictV(<<KV(StrV(n_role), txt)>>),
     DictV(<<KV(StrV(n_email), txt), KV(StrV(n_name), IntV(5))>>),
     DictV(Base \o <<KV(StrV(n_born), DateV(2020, 1, 5))>>),
     DictV(Base \o <<KV(StrV(n_addr), DictV(<<KV(StrV(n_city), txt), KV(StrV(n_x), txt)>>)), KV(StrV(n_addr_x), txt)>>)}

Docs == RootDocs \cup WorkDocs \cup AddrDocs \cup OtherDocs

\* what a data file can be: absent, text that is no YAML, bytes that are no UTF-8
\* text, or YAML of a document
FileDocs == {NoneV, DictV(Base \o <<KV(StrV(n_emial), txt)>>)}

Files == {[kind |-> "missing"], [kind |-> "yaml_error"], [kind |-> "undecodable"]} \cup {[kind |-> "ok", data |-> d] : d \in FileDocs}

\* the documents and files of the runs that compare two calls
IdemDocs ==
    {DictV(Base),
     DictV(<<KV(StrV(n_zz), DictV(<<KV(StrV(n_x), IntV(1))>>)), KV(StrV(n_emial), txt)>>),
     DictV(<<KV(StrV(n_name), txt), KV(IntV(1), txt)>>),
     DictV(Base \o <<KV(StrV(n_work), ListV(<<DictV(<<KV(StrV(n_role), txt)>>), DictV(<<KV(StrV(n_rol), txt)>>)>>))>>),
     DictV(Base \o <<KV(StrV(n_addr), DictV(<<KV(StrV(n_cty), txt)>>)), KV(StrV(n_x), txt), KV(StrV(n_rol), txt)>>),
     DictV(Base \o <<KV(StrV(n_born), DateV(2020, 1, 5))>>),
     NoneV}

IdemFiles == {[kind |-> "missing"], [kind |-> "ok", data |-> DictV(Base \o <<KV(StrV(n_emial), txt)>>)]}

\* the salts of the string hash the model tries
MaxSeed == 1

n_id == <<"i", "d">>
n_mail == <<"m", "a", "i", "l">>

\* a schema of short and of neighbouring names
SchemaIds ==
    ObjectSchema(<<KV(StrV(n_id), StringSchema),
                   KV(StrV(n_mail), StringSchema),
                   KV(StrV(n_email), StringSchema)>>,
                 <<>>)

\* a schema that declares no property
SchemaBare == DictV(<<TypeOf("object")>>)

SuggestSchemas == {SchemaCV, SchemaIds, SchemaBare}

\* the characters a misspelling puts in
EditChars == {"x", "."}

\* s without its i-th character
DropAt(s, i) == SubSeq(s, 1, i - 1) \o SubSeq(s, i + 1, Len(s))

\* the names one insertion, deletion or substitution away from k
EditsOf(k) ==
    { SubSeq(k, 1, i) \o <<c>> \o SubSeq(k, i + 1, Len(k)) : i \in 0..Len(k), c \in EditChars }
    \cup { DropAt(k, i) : i \in 1..Len(k) }
    \cup { SubSeq(k, 1, i - 1) \o <<c>> \o SubSeq(k, i + 1, Len(k)) : i \in 1..Len(k), c \in EditChars }

\* what _suggest_field_name is asked: misspellings of declared names, paths below
\* the root, a name like no declared one, a name that scores the threshold itself
\* against role, a declared name in capitals, the empty name, a key that is no string
Queries ==
    { StrV(u) : u \in UNION { EditsOf(k) : k \in {n_id, n_email, n_role} } }
    \cup { StrV(<<"w", "o", "r", "k", "[", "1", "]", ".", "r", "o", "l">>),
           StrV(<<"a", "d", "d", "r", ".", "c", "t", "y">>),
           StrV(<<"a", "d", "d", "r", ".", "c", "i", "t", "y", "x">>),
           StrV(<<"a", "d", "x", "r", ".", "c", "i", "t", "y">>),
           StrV(n_zz),
           StrV(<<"r", "o", "l", "x", "y", "z">>),
           StrV(<<"N", "A", "m", "e">>),
           StrV(<<>>),
           IntV(1) }

\* the nodes that declare properties, at the bottom of the composed schemas
LeafNodes ==
    { ObjectSchema(<<KV(StrV(n_x), StringSchema)>>, <<>>),
      ObjectSchema(<<KV(StrV(n_city), StringSchema),
                     KV(StrV(n_zz), ObjectSchema(<<KV(StrV(n_x), StringSchema)>>, <<>>))>>, <<>>) }

\* the ways a schema holds a schema: as it is, as a property, as the item-schema of
\* an array property, as the item-schema of the node, under not, under definitions,
\* in the list of allOf; and a default value, which is no schema
Wrappings == {"itself", "property", "array_property", "items", "not", "definitions", "allOf", "default"}

Wrap(how, node) ==
    CASE how = "itself" -> node
      [] how = "property" -> ObjectSchema(<<KV(StrV(n_addr), node)>>, <<>>)
      [] how = "array_property" -> ObjectSchema(<<KV(StrV(n_work), ArraySchema(node))>>, <<>>)
      [] how = "items" -> ArraySchema(node)
      [] how = "not" -> DictV(<<KV(KW("not"), node)>>)
      [] how = "definitions" -> DictV(<<TypeOf("object"), KV(KW("definitions"), DictV(<<KV(StrV(n_name), node)>>))>>)
      [] how = "allOf" -> DictV(<<KV(KW("allOf"), ListV(<<node>>))>>)
      [] OTHER -> DictV(<<TypeOf("object"), KV(KW("default"), node)>>)

\* every leaf wrapped twice
ComposedSchemas == { Wrap(outer, Wrap(inner, leaf)) : outer \in Wrappings, inner \in Wrappings, leaf \in LeafNodes }

\* the dates the documents hold: a date, a date of a year below 1000, a datetime
Dates == {DateV(2020, 1, 5), DateV(999, 12, 31), DateTimeV(2021, 11, 30, 9)}

\* documents that hold a date at the root, under a declared string, in an element
\* of the array of objects, in the nested object, and in a list under a key the
\* schema does not declare; and documents without a date
NormDocs ==
    UNION { { d,
              ListV(<<txt, d>>),
              DictV(Base \o <<KV(StrV(n_born), d)>>),
              DictV(Base \o <<KV(StrV(n_work), ListV(<<DictV(<<KV(StrV(n_role), txt)>>), DictV(<<KV(StrV(n_role), d)>>)>>))>>),
              DictV(Base \o <<KV(StrV(n_addr), DictV(<<KV(StrV(n_city), d)>>))>>),
              DictV(Base \o <<KV(StrV(n_zz), ListV(<<IntV(1), ListV(<<d>>), DictV(<<KV(IntV(1), d)>>)>>))>>) }
            : d \in Dates }
    \cup {NoneV, DictV(Base), DictV(<<KV(StrV(n_name), IntV(5)), KV(StrV(n_email), NoneV)>>)}

(***************************************************************************)
(* The state machine: construction, then a sequence of validation calls    *)
(***************************************************************************)
NoCall == [entry |-> "none"]

\* generate_cv.py has not been started
NotStarted == [pc |-> "idle"]

\* the size of the heap the list objects of results are allocated from
HeapSize == 6

\* no list: the call raised and returned no result
NoLists == [messages |-> 0, unknown_fields |-> 0]

\* the list objects a caller still holds through a call's result
Live(call) == IF call.entry = "none" THEN {} ELSE {call.lists.messages, call.lists.unknown_fields} \ {0}

\* the lowest address of the heap that is not in use
LowestFree(used) == CHOOSE n \in 1..HeapSize : n \notin used /\ \A k \in 1..(n - 1) : k \in used

\* one list object for every call, handed out again with every result (the way a
\* mutable default argument or a class attribute is)
SharedLists(live) == [messages |-> 1, unknown_fields |-> 2]

\* messages = [] and unknown_fields = []: two new list objects per call, at
\* addresses no live object has
FreshLists(live) ==
    [messages |-> LowestFree(live), unknown_fields |-> LowestFree(live \cup {LowestFree(live)})]

\* the lists of the result a call hands back
ListsOf(outcome, live) == IF outcome.kind = "returned" THEN FreshLists(live) ELSE NoLists

\* the caller's document after the call: normalize_recursive builds new dicts and
\* lists, and no statement stores into cv_data
cv_data_after(cv_data) == cv_data

NotCalled == [done |-> FALSE]

Init ==
    /\ constructed = "no"
    /\ schema = NoneV
    /\ known_fields = <<>>
    /\ hashSeed \in 0..MaxSeed
    /\ lastCall = NoCall
    /\ keptCall = NoCall
    /\ askedField = NoneV
    /\ suggested = NotCalled
    /\ yearPadded \in BOOLEAN
    /\ gen = NotStarted

\* CVValidator.__init__: _load_schema raises for a missing or malformed schema file
Construct(src) ==
    /\ constructed = "no"
    /\ IF src.kind = "ok"
       THEN /\ constructed' = "yes"
            /\ schema' = src.tree
            /\ known_fields' = SetAsWalked(extract_known_fields(src.tree), hashSeed)
       ELSE /\ constructed' = "failed"
            /\ UNCHANGED <<schema, known_fields>>
    /\ UNCHANGED <<hashSeed, lastCall, keptCall, askedField, suggested, yearPadded, gen>>

\* what is known of a call of validate_cv_data once it has ended
DataCall(cv_data, outcome, live) ==
    [entry |-> "data", input |-> cv_data,
     validated |-> structural_input(cv_data),
     detected |-> detector_input(cv_data),
     input_after |-> cv_data_after(cv_data),
     lists |-> ListsOf(outcome, live),
     outcome |-> outcome]

\* what is known of a call of validate_yaml_file once it has ended
FileCall(yaml_file, outcome, live) ==
    [entry |-> "file", input |-> yaml_file, lists |-> ListsOf(outcome, live), outcome |-> outcome]

\* a call of validate_cv_data; the caller may keep the call before it
ValidateCvData(cv_data, keep) ==
    /\ constructed = "yes"
    /\ lastCall' = DataCall(cv_data, validate_cv_data(cv_data, schema, known_fields, hashSeed),
                             Live(lastCall) \cup Live(keptCall))
    /\ keptCall' = IF keep THEN lastCall ELSE keptCall
    /\ UNCHANGED <<constructed, schema, known_fields, hashSeed, askedField, suggested, yearPadded, gen>>

\* a call of validate_yaml_file
ValidateYamlFile(yaml_file, keep) ==
    /\ constructed = "yes"
    /\ lastCall' = FileCall(yaml_file, validate_yaml_file(yaml_file, schema, known_fields, hashSeed),
                             Live(lastCall) \cup Live(keptCall))
    /\ keptCall' = IF keep THEN lastCall ELSE keptCall
    /\ UNCHANGED <<constructed, schema, known_fields, hashSeed, askedField, suggested, yearPadded, gen>>

Next ==
    \/ \E src \in SchemaSources : Construct(src)
    \/ \E d \in Docs : ValidateCvData(d, FALSE)
    \/ \E f \in Files : ValidateYamlFile(f, FALSE)

Spec == Init /\ [][Next]_vars

\* runs in which a caller keeps an earlier call and validates again
NextIdem ==
    \/ \E sch \in Schemas : Construct([kind |-> "ok", tree |-> sch])
    \/ \E d \in IdemDocs, keep \in BOOLEAN : ValidateCvData(d, keep)
    \/ \E f \in IdemFiles, keep \in BOOLEAN : ValidateYamlFile(f, keep)

SpecIdem == Init /\ [][NextIdem]_vars

\* a direct call of _suggest_field_name; unknown_field.split raises for an argument
\* that is no str
Suggest(u) ==
    /\ constructed = "yes"
    /\ askedField' = u
    /\ suggested' = IF IsStr(u)
                    THEN [done |-> TRUE, raised |-> FALSE, value |-> suggest_field_name(u.s, known_fields)]
                    ELSE [done |-> TRUE, raised |-> TRUE, value |-> [some |-> FALSE]]
    /\ UNCHANGED <<constructed, schema, known_fields, hashSeed, lastCall, keptCall, yearPadded, gen>>

\* runs of the suggestion engine on its own
NextSuggest ==
    \/ \E sch \in SuggestSchemas : Construct([kind |-> "ok", tree |-> sch])
    \/ \E u \in Queries : Suggest(u)

SpecSuggest == Init /\ [][NextSuggest]_vars

\* validations of documents that hold dates
NextNorm ==
    \/ \E sch \in Schemas : Construct([kind |-> "ok", tree |-> sch])
    \/ \E d \in NormDocs : ValidateCvData(d, FALSE)

SpecNorm == Init /\ [][NextNorm]_vars

\* constructions over the composed schemas
NextKF == \E sch \in ComposedSchemas : Construct([kind |-> "ok", tree |-> sch])

SpecKF == Init /\ [][NextKF]_vars

(***************************************************************************)
(* generate_cv.py: one run of the generator, a step at a time              *)
(***************************************************************************)
\* validate_cv_file: a validator is constructed, which raises when the schema file
\* is missing or malformed, and validate_yaml_file is called on it
validate_cv_file(yaml_file, src, seed) ==
    IF src.kind = "missing" THEN Raised("FileNotFoundError", {})
    ELSE IF src.kind = "malformed" THEN Raised("ValueError", {})
    ELSE validate_yaml_file(yaml_file, src.tree, SetAsWalked(extract_known_fields(src.tree), seed), seed)

\* the data files of the runs: a clean document, one with an unknown field, one
\* that lacks a required field, one with both, one whose only flaw is an unknown
\* root key that is no string, an empty document; and files that hold no document
GenDocs ==
    {DictV(Base),
     DictV(Base \o <<KV(StrV(n_emial), txt)>>),
     DictV(<<KV(StrV(n_name), txt)>>),
     DictV(<<KV(StrV(n_name), txt), KV(StrV(n_emial), txt)>>),
     DictV(Base \o <<KV(IntV(1), txt)>>),
     NoneV}

GenFiles == {[kind |-> "missing"], [kind |-> "yaml_error"], [kind |-> "undecodable"]} \cup {[kind |-> "ok", data |-> d] : d \in GenDocs}

\* the schema file the run finds
GenSchemaSources == {[kind |-> "ok", tree |-> SchemaCV], [kind |-> "missing"], [kind |-> "malformed"]}

\* the process ends with this exit code, in this step
Exit(g, code, at) == [g EXCEPT !.pc = "exit", !.exit_code = code, !.exit_at = at]

\* the step is entered
Reach(g, step) == [g EXCEPT !.pc = step, !.reached = @ \cup {step}]

\* main: the arguments are parsed. available: VALIDATION_AVAILABLE, the outcome of
\* the imports at the head of the module
ParseArgs(dry_run, force, available, template_ok, file, src) ==
    /\ gen.pc = "idle"
    /\ gen' = [pc |-> "check_files", dry_run |-> dry_run, force |-> force, available |-> available,
               template_ok |-> template_ok, file |-> file, schema_src |-> src,
               validated |-> FALSE, is_valid |-> FALSE, has_errors |-> FALSE, has_warnings |-> FALSE,
               exit_code |-> -1, exit_at |-> "none", reached |-> {}]
    /\ UNCHANGED validatorVars

\* main: the data file must exist, and the template unless the run is a dry run
CheckFiles ==
    /\ gen.pc = "check_files"
    /\ gen' = IF gen.file.kind = "missing" THEN Exit(gen, 1, "check_files")
              ELSE IF ~gen.dry_run /\ ~gen.template_ok THEN Exit(gen, 1, "check_files")
              ELSE [gen EXCEPT !.pc = "load"]
    /\ UNCHANGED validatorVars

\* load_yaml_data, called first by validate_and_load_yaml_data: a YAMLError ends the
\* process with 1; an exception it does not catch ends it with 1 as well
LoadYaml ==
    /\ gen.pc = "load"
    /\ gen' = IF gen.file.kind = "ok" THEN [gen EXCEPT !.pc = "validate"] ELSE Exit(gen, 1, "load")
    /\ UNCHANGED validatorVars

\* what validate_and_load_yaml_data does with a validation result
AfterResult(g, result) ==
    LET seen == [g EXCEPT !.validated = TRUE, !.is_valid = result.is_valid,
                          !.has_errors = has_errors(result), !.has_warnings = has_warnings(result)]
    IN  IF g.dry_run THEN Exit(seen, IF result.is_valid THEN 0 ELSE 1, "validate")
        ELSE IF has_errors(result) /\ ~g.force THEN Exit(seen, 1, "validate")
        ELSE [seen EXCEPT !.pc = "after_validation"]

\* what validate_and_load_yaml_data does with the outcome of validate_cv_file: an
\* exception is not caught and ends the process with 1
AfterOutcome(g, outcome) ==
    IF outcome.kind = "raised" THEN Exit(g, 1, "validate") ELSE AfterResult(g, outcome.result)

\* validate_and_load_yaml_data after the load: no validation without the validation
\* modules; otherwise validate_cv_file
ValidateLoaded ==
    /\ gen.pc = "validate"
    /\ gen' = IF ~gen.available THEN [gen EXCEPT !.pc = "after_validation"]
              ELSE AfterOutcome(gen, validate_cv_file(gen.file, gen.schema_src, hashSeed))
    /\ UNCHANGED validatorVars

\* main, back from validate_and_load_yaml_data: a dry run that got this far ends
\* with 0
AfterValidation ==
    /\ gen.pc = "after_validation"
    /\ gen' = IF gen.dry_run THEN Exit(gen, 0, "after_validation") ELSE Reach(gen, "render")
    /\ UNCHANGED validatorVars

\* render_template: any exception ends the process with 1, the one of data.copy()
\* on a document that is no mapping included
Render(ok) ==
    /\ gen.pc = "render"
    /\ gen' = IF ok /\ IsDict(gen.file.data) THEN Reach(gen, "write") ELSE Exit(gen, 1, "render")
    /\ UNCHANGED validatorVars

\* main: the .tex file is written
WriteTex ==
    /\ gen.pc = "write"
    /\ gen' = Reach(gen, "compile")
    /\ UNCHANGED validatorVars

\* compile_latex_to_pdf and the check that the PDF exists
Compile(ok) ==
    /\ gen.pc = "compile"
    /\ gen' = Exit(gen, IF ok THEN 0 ELSE 1, "compile")
    /\ UNCHANGED validatorVars

NextGen ==
    \/ \E dry_run, force, available, template_ok \in BOOLEAN, file \in GenFiles, src \in GenSchemaSources :
            ParseArgs(dry_run, force, available, template_ok, file, src)
    \/ CheckFiles
    \/ LoadYaml
    \/ ValidateLoaded
    \/ AfterValidation
    \/ \E ok \in BOOLEAN : Render(ok)
    \/ WriteTex
    \/ \E ok \in BOOLEAN : Compile(ok)

SpecGen == Init /\ [][NextGen]_vars

(***************************************************************************)
(* Properties                                                              *)
(***************************************************************************)
\* the latest call was validate_cv_data and it returned a result
DataReturned == lastCall.entry = "data" /\ lastCall.outcome.kind = "returned"

\* how often p occurs in seq
Count(p, seq) == Cardinality({i \in DOMAIN seq : seq[i] = p})

\* the structural violations of a document, found over its normalised copy
StructuralErrors(doc) == iter_errors(normalize_data_for_validation(doc), schema, <<>>)

\* C1: a result of validate_cv_data has is_valid = FALSE exactly when it holds at
\* least one error-level message: valid results have an empty errors view, invalid
\* ones a non-empty one.
C1_ValidIffNoErrors ==
    DataReturned =>
        LET r == lastCall.outcome.result
        IN  /\ (r.is_valid = FALSE) <=> (Len(errors(r)) > 0)
            /\ has_errors(r) <=> ~r.is_valid

\* an invalid result with two errors and a warning beside them
C1_Witness ==
    /\ DataReturned
    /\ ~lastCall.outcome.result.is_valid
    /\ Len(errors(lastCall.outcome.result)) >= 2
    /\ Len(warnings(lastCall.outcome.result)) >= 1

RECURSIVE StripUnknown(_, _)
\* the document without the fields the detector reports: at every object level the
\* schema describes, only the declared keys are kept
StripUnknown(data, node) ==
    IF ~IsDict(data) \/ ~IsDict(node) \/ ~Has(node, KW("properties")) THEN data
    ELSE LET props == Get(node, KW("properties"))
             kept == {i \in DOMAIN data.items : Has(props, data.items[i].k)}
             ix == SetOrder({IntV(i) : i \in kept}, 0)
         IN  DictV([n \in DOMAIN ix |->
                LET it == data.items[ix[n].n]
                    sub == Get(props, it.k)
                IN  KV(it.k,
                       IF IsDict(it.v) THEN StripUnknown(it.v, sub)
                       ELSE IF IsList(it.v) /\ IsDict(sub) /\ Has(sub, KW("items"))
                       THEN ListV([j \in DOMAIN it.v.elems |-> StripUnknown(it.v.elems[j], Get(sub, KW("items")))])
                       ELSE it.v)])

\* C2: unknown fields are advisory. In every result of validate_cv_data the warnings
\* are the unknown fields, one WARNING each in the same order (the i-th warning's
\* field_path is unknown_fields[i]); the error-level messages are the structural
\* violations and nothing else; and is_valid is what the structural validator says
\* of the document, also with its unknown fields taken away.
C2_UnknownAdvisory ==
    DataReturned =>
        LET r == lastCall.outcome.result
            doc == lastCall.input
        IN  /\ Len(warnings(r)) = Len(r.unknown_fields)
            /\ \A i \in DOMAIN r.unknown_fields : warnings(r)[i].field_path = r.unknown_fields[i]
            /\ Len(errors(r)) = Len(StructuralErrors(doc))
            /\ Len(r.messages) = Len(errors(r)) + Len(warnings(r))
            /\ r.is_valid = (StructuralErrors(doc) = <<>>)
            /\ r.is_valid = (StructuralErrors(StripUnknown(doc, schema)) = <<>>)

\* a valid result that carries two unknown fields
C2_Witness ==
    /\ DataReturned
    /\ lastCall.outcome.result.is_valid
    /\ Len(lastCall.outcome.result.unknown_fields) >= 2

\* the child schema the walk below hands down: the declared property's schema, the
\* array's item schema, or none
ChildProps(node) == IF IsDict(node) /\ Has(node, KW("properties")) THEN Get(node, KW("properties")) ELSE DictV(<<>>)

RECURSIVE AllUndeclared(_, _, _, _)
\* every key of the document, at any depth, that the schema does not declare at its
\* nesting path (at: the keys and indices that lead to it; path: its dotted and
\* bracketed path)
AllUndeclared(data, node, at, path) ==
    IF IsDict(data)
    THEN UNION { LET k == data.items[i].k
                     declared == Has(ChildProps(node), k)
                     here == DotJoin(path, PyStr(k))
                 IN  (IF declared THEN {} ELSE {[at |-> Append(at, k), path |-> here]}) \cup
                     AllUndeclared(data.items[i].v, IF declared THEN Get(ChildProps(node), k) ELSE NoneV, Append(at, k), here)
                 : i \in DOMAIN data.items }
    ELSE IF IsList(data)
    THEN UNION { AllUndeclared(data.elems[j],
                               IF IsDict(node) /\ Has(node, KW("items")) THEN Get(node, KW("items")) ELSE NoneV,
                               Append(at, IntV(j - 1)),
                               path \o <<"[">> \o IntStr(j - 1) \o <<"]">>)
                 : j \in DOMAIN data.elems }
    ELSE {}

RECURSIVE ReachedUndeclared(_, _, _, _)
\* the undeclared keys at the object levels the schema describes: the root object,
\* a mapping under a declared property whose schema has properties, a mapping in a
\* declared array whose item schema has properties
ReachedUndeclared(data, node, at, path) ==
    IF ~IsDict(data) \/ ~IsDict(node) \/ ~Has(node, KW("properties")) THEN {}
    ELSE UNION { LET k == data.items[i].k
                     v == data.items[i].v
                     here == DotJoin(path, PyStr(k))
                 IN  IF ~Has(ChildProps(node), k) THEN {[at |-> Append(at, k), path |-> here]}
                     ELSE LET sub == Get(ChildProps(node), k)
                          IN  IF IsDict(v) THEN ReachedUndeclared(v, sub, Append(at, k), here)
                              ELSE IF IsList(v) /\ IsDict(sub) /\ Has(sub, KW("items"))
                              THEN UNION { ReachedUndeclared(v.elems[j], Get(sub, KW("items")), Append(Append(at, k), IntV(j - 1)),
                                                             here \o <<"[">> \o IntStr(j - 1) \o <<"]">>)
                                           : j \in DOMAIN v.elems }
                              ELSE {}
                 : i \in DOMAIN data.items }

\* the messages of r about path p are warnings, and there is one
OnlyWarned(r, p) ==
    /\ \E i \in DOMAIN r.messages : r.messages[i].field_path = p /\ r.messages[i].level = "warning"
    /\ \A i \in DOMAIN r.messages : r.messages[i].field_path = p => r.messages[i].level = "warning"

\* C3 as stated: every key the schema does not declare at its nesting path, at any
\* nesting depth, has its full path in unknown_fields exactly once, as a warning and
\* never as an error.
C3_AnyDepthOnce ==
    DataReturned =>
        \A u \in AllUndeclared(lastCall.input, schema, <<>>, <<>>) :
            /\ Count(u.path, lastCall.outcome.result.unknown_fields) = 1
            /\ OnlyWarned(lastCall.outcome.result, u.path)

\* C3 as amended: a call of validate_cv_data raises exactly when the document has,
\* at its root, an undeclared key that is no string. Otherwise unknown_fields holds
\* one entry for each undeclared key at the object levels the schema describes (the
\* root, a mapping under a declared property whose schema has properties, a mapping
\* in a declared array whose item schema has properties), the entry being the key's
\* dotted path with name[index] for array elements, and holds nothing else; each
\* entry is a warning and never an error. Keys below an undeclared key, or below a
\* property the schema does not describe as an object, are not reported.
C3_ReachedLevels ==
    lastCall.entry = "data" =>
        LET reached == ReachedUndeclared(lastCall.input, schema, <<>>, <<>>)
        IN  /\ lastCall.outcome.kind = "raised" <=> \E u \in reached : Len(u.at) = 1 /\ ~IsStr(u.at[1])
            /\ lastCall.outcome.kind = "returned" =>
                   LET r == lastCall.outcome.result
                   IN  /\ Len(r.unknown_fields) = Cardinality(reached)
                       /\ \A u \in reached :
                           /\ Count(u.path, r.unknown_fields) = Cardinality({w \in reached : w.path = u.path})
                           /\ OnlyWarned(r, u.path)

\* an unknown key in the second element of the array of objects, reported under
\* its bracketed path
C3_Witness ==
    /\ DataReturned
    /\ \E u \in ReachedUndeclared(lastCall.input, schema, <<>>, <<>>) :
        /\ Len(u.at) = 3
        /\ u.at[2] = IntV(1)
        /\ Count(u.path, lastCall.outcome.result.unknown_fields) = 1

RECURSIVE MissingRequired(_, _, _)
\* the required fields a document lacks: the field's name as the schema's required
\* list gives it, and the keys and indices that lead to the object that lacks it
MissingRequired(data, node, at) ==
    IF ~IsDict(node) THEN {}
    ELSE IF IsDict(data)
    THEN (IF Has(node, KW("required"))
          THEN { [at |-> at, name |-> Get(node, KW("required")).elems[i].s] :
                    i \in {j \in DOMAIN Get(node, KW("required")).elems : ~Has(data, Get(node, KW("required")).elems[j])} }
          ELSE {})
         \cup UNION { IF Has(ChildProps(node), data.items[i].k)
                      THEN MissingRequired(data.items[i].v, Get(ChildProps(node), data.items[i].k), Append(at, data.items[i].k))
                      ELSE {}
                      : i \in DOMAIN data.items }
    ELSE IF IsList(data) /\ Has(node, KW("items"))
    THEN UNION { MissingRequired(data.elems[j], Get(node, KW("items")), Append(at, IntV(j - 1))) : j \in DOMAIN data.elems }
    ELSE {}

\* the error the claim expects for one missing required field
RequiredMessage(m) ==
    ValidationMessage("error",
                      JoinWith([i \in DOMAIN m.at |-> PyStr(m.at[i])], <<".">>),
                      <<"Required field '">> \o m.name \o <<"'", " is missing">>,
                      NoSuggestion)

\* C4: a document that lacks one required field (at the root, in a nested object
\* or in an array element) and conforms otherwise gets exactly one error, whose
\* message is "Required field '<name>' is missing" with the field's own name, for
\* every field name, and whose field_path is the dot-joined location of the object
\* that lacks it (empty at the root).
C4_RequiredMessage ==
    (DataReturned /\ Len(StructuralErrors(lastCall.input)) = 1
                  /\ Cardinality(MissingRequired(lastCall.input, schema, <<>>)) = 1) =>
        \A m \in MissingRequired(lastCall.input, schema, <<>>) :
            errors(lastCall.outcome.result) = <<RequiredMessage(m)>>

\* C5: validate_cv_data, called with any parsed value, returns a result and never
\* raises.
C5_NeverRaises == lastCall.entry = "data" => lastCall.outcome.kind = "returned"

\* C6: through validate_yaml_file a missing data file or a data file that cannot
\* be parsed (text that is no YAML, bytes that are no text) never raises: it gives a
\* result with is_valid = FALSE, exactly one message, that message an ERROR at the
\* root (empty field_path), and no unknown fields; neither the structural validator
\* nor the unknown-field detector has run.
C6_LoadErrorsRecovered ==
    (lastCall.entry = "file" /\ lastCall.input.kind \in {"missing", "yaml_error", "undecodable"}) =>
        /\ lastCall.outcome.kind = "returned"
        /\ lastCall.outcome.result.is_valid = FALSE
        /\ Len(lastCall.outcome.result.messages) = 1
        /\ lastCall.outcome.result.messages[1].level = "error"
        /\ lastCall.outcome.result.messages[1].field_path = <<>>
        /\ lastCall.outcome.result.unknown_fields = <<>>
        /\ lastCall.outcome.ran = {}

KnownSet == {known_fields[i] : i \in DOMAIN known_fields}

\* the text after the last '.' of a path: its longest suffix without one
FinalSegment(text) ==
    LET dots == {i \in DOMAIN text : text[i] = "."}
    IN  IF dots = {} THEN text
        ELSE SubSeq(text, (CHOOSE i \in dots : \A j \in dots : j <= i) + 1, Len(text))

\* the engine answered a path held as text
SuggestReturned == suggested.done /\ ~suggested.raised

\* the highest score a member of the Known-Field Set has against seg
BestScore(seg) == CHOOSE b \in {Score(seg, k) : k \in KnownSet} : \A k \in KnownSet : Score(seg, k) <= b

\* C8: for an unknown-field path, _suggest_field_name compares the final segment
\* (the text after the last '.') with the Known-Field Set and returns a member of
\* the highest score exactly when that score is at least the threshold of 60; it
\* returns nothing when every member scores below it or the set is empty.
C8_BestAtThreshold ==
    SuggestReturned =>
        LET seg == FinalSegment(askedField.s)
        IN  /\ suggested.value.some <=> (KnownSet # {} /\ BestScore(seg) >= 60)
            /\ suggested.value.some =>
                   /\ suggested.value.name \in KnownSet
                   /\ Score(seg, suggested.value.name) = BestScore(seg)
            /\ KnownSet = {} => ~suggested.value.some

\* a path below the root, inside an array, is answered from its final segment
C8_Witness ==
    /\ SuggestReturned
    /\ askedField = StrV(<<"w", "o", "r", "k", "[", "1", "]", ".", "r", "o", "l">>)
    /\ suggested.value = [some |-> TRUE, name |-> n_role]

\* a and b differ in one place
OneSubstitution(a, b) == Len(a) = Len(b) /\ Cardinality({i \in DOMAIN a : a[i] # b[i]}) = 1

\* long is short with one character put in
OneInsertion(short, long) == Len(long) = Len(short) + 1 /\ \E i \in DOMAIN long : DropAt(long, i) = short

\* u is one insertion, deletion or substitution away from k
SingleEdit(u, k) == OneSubstitution(u, k) \/ OneInsertion(k, u) \/ OneInsertion(u, k)

\* a name of word characters only
WordName(name) == \A i \in DOMAIN name : IsWordChar(name[i])

\* a name in which no character comes twice, capitals taken as small letters
DistinctChars(name) == \A i, j \in DOMAIN name : i # j => Lower(name[i]) # Lower(name[j])

\* C9 as stated: for every known field name k and every unknown name u a single
\* edit away from k, the engine returns k for u.
C9_SingleEditReturnsField ==
    SuggestReturned /\ askedField.s \notin KnownSet =>
        \A k \in KnownSet : SingleEdit(askedField.s, k) => suggested.value = [some |-> TRUE, name |-> k]

\* C9: for a known field name k and an unknown name u: when the final segment of u
\* scores at least 60 against k the engine returns a suggestion that scores no
\* less than k, and k itself when k alone scores highest; when u is a single edit
\* away from k and both are names of word characters, k of three or more that
\* are pairwise distinct, the score of k is at least 60; when no known field
\* scores 60 nothing is returned.
C9_SingleEditSuggestion ==
    SuggestReturned /\ askedField.s \notin KnownSet =>
        LET seg == FinalSegment(askedField.s)
        IN  /\ \A k \in KnownSet :
                   /\ Score(seg, k) >= 60 =>
                          /\ suggested.value.some
                          /\ Score(seg, suggested.value.name) >= Score(seg, k)
                          /\ (\A other \in KnownSet \ {k} : Score(seg, other) < Score(seg, k)) => suggested.value.name = k
                   /\ (/\ SingleEdit(askedField.s, k)
                       /\ WordName(k) /\ WordName(askedField.s)
                       /\ Len(k) >= 3 /\ DistinctChars(k)) =>
                          Score(seg, k) >= 60
            /\ (\A k \in KnownSet : Score(seg, k) < 60) => ~suggested.value.some

\* a single edit of email for which a neighbouring name is returned
C9_Witness ==
    /\ SuggestReturned
    /\ askedField = StrV(<<"x", "m", "a", "i", "l">>)
    /\ n_email \in KnownSet
    /\ SingleEdit(askedField.s, n_email)
    /\ suggested.value = [some |-> TRUE, name |-> n_mail]

\* the keywords the claim of C10 has the traversal follow besides properties and
\* items: those that hold one schema, a mapping of schemas, a list of schemas
SchemaKeywords == {KW("not")}

SchemaMapKeywords == {KW("definitions")}

SchemaListKeywords == {KW("allOf"), KW("anyOf"), KW("oneOf")}

RECURSIVE ClaimedFields(_, _)
\* the Known-Field Set as C10 states it: bare name and dotted path of every
\* property of every object node reached through properties, through item-schemas
\* (no path segment) or through another keyword that holds schemas
ClaimedFields(node, prefix) ==
    IF ~IsDict(node) THEN {}
    ELSE UNION { LET key == node.items[i].k
                     value == node.items[i].v
                 IN  CASE key = KW("properties") /\ IsDict(value) ->
                            UNION { {PyStr(value.items[j].k), DotJoin(prefix, PyStr(value.items[j].k))}
                                    \cup ClaimedFields(value.items[j].v, DotJoin(prefix, PyStr(value.items[j].k)))
                                    : j \in DOMAIN value.items }
                       [] key = KW("items") \/ key \in SchemaKeywords -> ClaimedFields(value, prefix)
                       [] key \in SchemaMapKeywords /\ IsDict(value) ->
                            UNION { ClaimedFields(value.items[j].v, prefix) : j \in DOMAIN value.items }
                       [] key \in SchemaListKeywords /\ IsList(value) ->
                            UNION { ClaimedFields(value.elems[j], prefix) : j \in DOMAIN value.elems }
                       [] OTHER -> {}
                 : i \in DOMAIN node.items }

\* C10: the Known-Field Set built at construction holds, for every object node
\* reachable from the root through properties, item-schemas or any other keyword
\* that holds nested schemas (composition keywords among them), each property's
\* bare name and its dotted path, and nothing else.
C10_KnownFieldSet == constructed = "yes" => KnownSet = ClaimedFields(schema, <<>>)

RECURSIVE DigitsValue(_)
\* the number a text of decimal digits writes, -1 when it is none
DigitsValue(text) ==
    IF text = <<>> THEN 0
    ELSE LET last == text[Len(text)]
             rest == DigitsValue(SubSeq(text, 1, Len(text) - 1))
         IN  IF rest < 0 \/ ~(\E i \in DOMAIN Digits : Digits[i] = last) THEN -1
             ELSE 10 * rest + (CHOOSE i \in DOMAIN Digits : Digits[i] = last) - 1

\* text is "YYYY-MM-DD" for the day of d
IsYMD(text, d) ==
    /\ Len(text) = 10
    /\ text[5] = "-" /\ text[8] = "-"
    /\ DigitsValue(SubSeq(text, 1, 4)) = d.y
    /\ DigitsValue(SubSeq(text, 6, 7)) = d.m
    /\ DigitsValue(SubSeq(text, 9, 10)) = d.d

RECURSIVE Canonical(_, _)
\* copy is orig with every date and datetime, at any depth of mappings and lists,
\* replaced by its "YYYY-MM-DD" text and everything else as it was: the same keys in
\* the same order, the same list lengths, the same other scalars
Canonical(orig, copy) ==
    IF IsDict(orig)
    THEN /\ IsDict(copy) /\ Len(copy.items) = Len(orig.items)
         /\ \A i \in DOMAIN orig.items :
                copy.items[i].k = orig.items[i].k /\ Canonical(orig.items[i].v, copy.items[i].v)
    ELSE IF IsList(orig)
    THEN /\ IsList(copy) /\ Len(copy.elems) = Len(orig.elems)
         /\ \A i \in DOMAIN orig.elems : Canonical(orig.elems[i], copy.elems[i])
    ELSE IF orig.t \in {"date", "datetime"}
    THEN IsStr(copy) /\ IsYMD(copy.s, orig)
    ELSE copy = orig

\* the schema says nothing of a value, or says it is a string
ExpectsString(node) == ~IsDict(node) \/ ~Has(node, KW("type")) \/ Get(node, KW("type")) = KW("string")

RECURSIVE DatePlaces(_, _, _)
\* the places of a document that hold a date or datetime where the schema (node:
\* the schema of the place, NoneV for none) expects a string or declares nothing,
\* as dot-joined paths
DatePlaces(data, node, path) ==
    IF IsDict(data)
    THEN UNION { DatePlaces(data.items[i].v,
                            IF Has(ChildProps(node), data.items[i].k) THEN Get(ChildProps(node), data.items[i].k) ELSE NoneV,
                            DotJoin(path, PyStr(data.items[i].k)))
                 : i \in DOMAIN data.items }
    ELSE IF IsList(data)
    THEN UNION { DatePlaces(data.elems[j],
                            IF IsDict(node) /\ Has(node, KW("items")) THEN Get(node, KW("items")) ELSE NoneV,
                            DotJoin(path, IntStr(j - 1)))
                 : j \in DOMAIN data.elems }
    ELSE IF data.t \in {"date", "datetime"} /\ ExpectsString(node) THEN {path}
    ELSE {}

\* C11: normalisation replaces every date and datetime, at any depth of mappings
\* and lists, by its "YYYY-MM-DD" text and leaves the other scalars and the shape
\* (keys, list lengths, order) as they were; the structural validator is given this
\* copy, so a date where the schema expects a string (or declares nothing) gives no
\* error, and the unknown-field detector is given the original document.
C11_NormalizedCopy ==
    lastCall.entry = "data" =>
        /\ Canonical(lastCall.input, lastCall.validated)
        /\ lastCall.detected = lastCall.input
        /\ lastCall.outcome.kind = "returned" =>
               \A i \in DOMAIN lastCall.outcome.result.messages :
                   lastCall.outcome.result.messages[i].level = "error" =>
                       lastCall.outcome.result.messages[i].field_path \notin DatePlaces(lastCall.input, schema, <<>>)

\* the call that ended last handed back a result
LastReturned == lastCall.entry # "none" /\ lastCall.outcome.kind = "returned"

\* what holds of the latest call: the caller's document is as it was, and the two
\* lists of its result are two objects, neither of them a list of the result the
\* caller kept from before
FreshResult ==
    /\ lastCall.entry = "data" => lastCall.input_after = lastCall.input
    /\ LastReturned =>
           /\ lastCall.lists.messages # lastCall.lists.unknown_fields
           /\ Live(lastCall) \cap Live(keptCall) = {}

\* what holds of every step of a constructed validator: schema tree and Known-Field
\* Set stay as they are, and the lists of a new result are none of the result before
InstanceKept ==
    constructed = "yes" =>
        /\ schema' = schema
        /\ known_fields' = known_fields
        /\ (lastCall' # lastCall /\ lastCall'.outcome.kind = "returned") => Live(lastCall') \cap Live(lastCall) = {}

Started == gen.pc # "idle"

\* the document of the run's data file conforms to the schema: a validation of it
\* can report warnings only
OnlyWarnings ==
    /\ gen.file.kind = "ok"
    /\ gen.schema_src.kind = "ok"
    /\ iter_errors(normalize_data_for_validation(gen.file.data), gen.schema_src.tree, <<>>) = <<>>

\* C13: in a run of the generator the render, write and compile steps are never
\* reached in dry-run mode; in normal mode they are reached after a validation
\* that reported errors only with --force; warnings alone never block generation;
\* and a dry run exits with code 0 exactly when the validation result is valid.
C13_RunSequence ==
    Started =>
        /\ gen.dry_run => gen.reached = {}
        /\ (~gen.dry_run /\ gen.reached # {} /\ gen.validated /\ gen.has_errors) => gen.force
        /\ (~gen.dry_run /\ gen.available /\ OnlyWarnings) => ~(gen.pc = "exit" /\ gen.exit_at = "validate")
        /\ (gen.dry_run /\ gen.pc = "exit") => (gen.exit_code = 0 <=> (gen.validated /\ gen.is_valid))

====
